---- MODULE Spec2Model ----
(***************************************************************************)
(* Requirement-coverage tracking of rodtjarn/software_verification.        *)
(*                                                                         *)
(* conftest.py is a pytest plugin: pytest_configure creates the ledger     *)
(* (config._coverage, config._feature_coverage), pytest_runtest_makereport *)
(* files every test outcome under the requirement and feature IDs the test *)
(* is decorated with, and pytest_terminal_summary prints the statistics    *)
(* and calls simple_reports.generate_reports, which writes report.json,    *)
(* report.html, report.md and report_table.txt.  check_coverage.py is the   *)
(* CI gate that reads report.json.                                         *)
(***************************************************************************)
EXTENDS Integers, Sequences, FiniteSets, TLC

VARIABLES
    coverage,          \* config._coverage: requirement id -> list of test_info
    feature_coverage,  \* config._feature_coverage: feature id -> list of feature_test_info
    phase,             \* "running" between pytest_configure and the summary, then "done"
    calls,             \* number of pytest_runtest_makereport calls so far
    last,              \* arguments of the latest pytest_runtest_makereport call
    terminal,          \* what pytest_terminal_summary wrote: <<>> or <<statistics>>
    files,             \* the working directory: file name -> content
    gate,              \* the latest check_coverage.py process: <<>> or <<its outcome>>
    viewer,            \* the latest show_table.py, show_uncovered.py or view_reports.py
                       \* process: <<>> or <<its outcome>>
    registry,          \* a registry file put to the import: <<>> or
                       \* <<[source, loaded]>>, loaded being <<>> until imported
    pool               \* parallel workers calling the hook: the lock, each
                       \* worker's position, the order the recordings ended in

vars == <<coverage, feature_coverage, phase, calls, last, terminal, files, gate,
          viewer, registry, pool>>

----------------------------------------------------------------------------
(* Bounds *)

\* pytest_runtest_makereport calls explored, over all runs
MaxCalls == 2

\* times the reports are written into the directory, over all runs
MaxBuilds == 2

\* lines of an exception text
MaxLines == 2

----------------------------------------------------------------------------
(* simple_spec.py *)

REQUIREMENTS ==
    [r \in {"REQ-1", "REQ-2", "REQ-3", "REQ-4"} |->
        CASE r = "REQ-1" ->
               [description |-> "reverse_string returns the reversed string",
                priority |-> "high",
                features |-> [f \in {"F1.1", "F1.2", "F1.3", "F1.4"} |->
                    CASE f = "F1.1" -> "handles ASCII characters"
                      [] f = "F1.2" -> "handles Unicode characters"
                      [] f = "F1.3" -> "handles emojis"
                      [] f = "F1.4" -> "handles whitespace and special characters"]]
          [] r = "REQ-2" ->
               [description |-> "reversing twice returns the original string",
                priority |-> "high",
                features |-> [f \in {"F2.1", "F2.2", "F2.3"} |->
                    CASE f = "F2.1" -> "idempotency with ASCII strings"
                      [] f = "F2.2" -> "idempotency with Unicode strings"
                      [] f = "F2.3" -> "idempotency with mixed content"]]
          [] r = "REQ-3" ->
               [description |-> "reverse_string handles empty strings",
                priority |-> "medium",
                features |-> [f \in {"F3.1"} |-> "empty string returns empty string"]]
          [] r = "REQ-4" ->
               [description |-> "reverse_string preserves string length",
                priority |-> "high",
                features |-> [f \in {"F4.1", "F4.2", "F4.3"} |->
                    CASE f = "F4.1" -> "length preserved for ASCII"
                      [] f = "F4.2" -> "length preserved for Unicode"
                      [] f = "F4.3" -> "length preserved for empty strings"]]]

\* get_all_features(): feature id -> {description, requirement}, flattened
get_all_features ==
    [f \in UNION {DOMAIN REQUIREMENTS[r].features : r \in DOMAIN REQUIREMENTS} |->
        LET req_id == CHOOSE r \in DOMAIN REQUIREMENTS : f \in DOMAIN REQUIREMENTS[r].features
        IN  [description |-> REQUIREMENTS[req_id].features[f], requirement |-> req_id]]

----------------------------------------------------------------------------
(* The collected test items.  An item is the test function as the          *)
(* decorators of conftest.py left it: _requirements (requirement) and      *)
(* _features (feature) are present only when the decorator was applied;    *)
(* hypothesis is the attribute @given adds, max_examples its setting.      *)
(* callspec is <<>> or <<the parametrize arguments, each as its repr>>,    *)
(* source is <<>> when inspect.getsource fails, else <<the statements of   *)
(* the test>>, and raises is the exception of a failing run: its type name *)
(* and str() of its value.                                                 *)

\* simple_test.py
test_basic_reversal ==
    [nodeid |-> "simple_test.py::test_basic_reversal",
     has_requirements |-> TRUE, _requirements |-> <<"REQ-1">>,
     has_features |-> TRUE, _features |-> <<"F1.1", "F1.4">>,
     hypothesis |-> FALSE, max_examples |-> 1,
     callspec |-> <<>>,
     \* assert reverse_string("hello") == "olleh"
     source |-> <<
         <<"a", "s", "s", "e", "r", "t", " ", "r", "e", "v", "e", "r", "s",
           "e", "_", "s", "t", "r", "i", "n", "g", "(", "\"", "h", "e",
           "l", "l", "o", "\"", ")", " ", "=", "=", " ", "\"", "o", "l",
           "l", "e", "h", "\"">>>>,
     \* assert 'hello' == 'olleh'\n  - olleh\n  + hello
     raises |-> [typename |-> "AssertionError", value |->
         <<"a", "s", "s", "e", "r", "t", " ", "'", "h", "e", "l", "l", "o",
           "'", " ", "=", "=", " ", "'", "o", "l", "l", "e", "h", "'",
           "\n", " ", " ", "-", " ", "o", "l", "l", "e", "h", "\n", " ",
           " ", "+", " ", "h", "e", "l", "l", "o">>]]

test_reverse_twice_is_original ==
    [nodeid |-> "simple_test.py::test_reverse_twice_is_original",
     has_requirements |-> TRUE, _requirements |-> <<"REQ-1", "REQ-2">>,
     has_features |-> TRUE, _features |-> <<"F1.1", "F1.2", "F1.4", "F2.1", "F2.2", "F2.3">>,
     hypothesis |-> TRUE, max_examples |-> 500,
     callspec |-> <<>>,
     \* assert reverse_string(reverse_string(s)) == s
     source |-> <<
         <<"a", "s", "s", "e", "r", "t", " ", "r", "e", "v", "e", "r", "s",
           "e", "_", "s", "t", "r", "i", "n", "g", "(", "r", "e", "v", "e",
           "r", "s", "e", "_", "s", "t", "r", "i", "n", "g", "(", "s", ")",
           ")", " ", "=", "=", " ", "s">>>>,
     \* assert '10' == '01'
     raises |-> [typename |-> "AssertionError", value |->
         <<"a", "s", "s", "e", "r", "t", " ", "'", "1", "0", "'", " ", "=",
           "=", " ", "'", "0", "1", "'">>]]

\* the two string literals are shortened, their emojis written "?"
test_emoji_reversal ==
    [nodeid |-> "simple_test.py::test_emoji_reversal",
     has_requirements |-> TRUE, _requirements |-> <<"REQ-1">>,
     has_features |-> TRUE, _features |-> <<"F1.3">>,
     hypothesis |-> FALSE, max_examples |-> 1,
     callspec |-> <<>>,
     \* assert reverse_string("hi?") == "?ih"\nassert reverse_string("???") == "???"
     source |-> <<
         <<"a", "s", "s", "e", "r", "t", " ", "r", "e", "v", "e", "r", "s",
           "e", "_", "s", "t", "r", "i", "n", "g", "(", "\"", "h", "i",
           "?", "\"", ")", " ", "=", "=", " ", "\"", "?", "i", "h", "\"",
           "\n", "a", "s", "s", "e", "r", "t", " ", "r", "e", "v", "e",
           "r", "s", "e", "_", "s", "t", "r", "i", "n", "g", "(", "\"",
           "?", "?", "?", "\"", ")", " ", "=", "=", " ", "\"", "?", "?",
           "?", "\"">>>>,
     \* assert False
     raises |-> [typename |-> "AssertionError", value |->
         <<"a", "s", "s", "e", "r", "t", " ", "F", "a", "l", "s", "e">>]]

test_empty_string ==
    [nodeid |-> "simple_test.py::test_empty_string",
     has_requirements |-> TRUE, _requirements |-> <<"REQ-3">>,
     has_features |-> TRUE, _features |-> <<"F3.1">>,
     hypothesis |-> FALSE, max_examples |-> 1,
     callspec |-> <<>>,
     \* assert reverse_string("") == ""
     source |-> <<
         <<"a", "s", "s", "e", "r", "t", " ", "r", "e", "v", "e", "r", "s",
           "e", "_", "s", "t", "r", "i", "n", "g", "(", "\"", "\"", ")",
           " ", "=", "=", " ", "\"", "\"">>>>,
     \* assert 'x' == ''\n  + x
     raises |-> [typename |-> "AssertionError", value |->
         <<"a", "s", "s", "e", "r", "t", " ", "'", "x", "'", " ", "=", "=",
           " ", "'", "'", "\n", " ", " ", "+", " ", "x">>]]

test_length_preserved ==
    [nodeid |-> "simple_test.py::test_length_preserved",
     has_requirements |-> TRUE, _requirements |-> <<"REQ-4">>,
     has_features |-> TRUE, _features |-> <<"F4.1", "F4.2", "F4.3">>,
     hypothesis |-> TRUE, max_examples |-> 1000,
     callspec |-> <<>>,
     \* assert len(reverse_string(s)) == len(s)
     source |-> <<
         <<"a", "s", "s", "e", "r", "t", " ", "l", "e", "n", "(", "r", "e",
           "v", "e", "r", "s", "e", "_", "s", "t", "r", "i", "n", "g", "(",
           "s", ")", ")", " ", "=", "=", " ", "l", "e", "n", "(", "s", ")">>>>,
     \* assert 2 == 1\n +  where 2 = len('ab')
     raises |-> [typename |-> "AssertionError", value |->
         <<"a", "s", "s", "e", "r", "t", " ", "2", " ", "=", "=", " ", "1",
           "\n", " ", "+", " ", " ", "w", "h", "e", "r", "e", " ", "2",
           " ", "=", " ", "l", "e", "n", "(", "'", "a", "b", "'", ")">>]]

\* Further items the decorators allow: IDs the registry does not declare,
\* a parametrized test, a test with @requirement only, and a test with
\* @feature only.
test_stale_ids ==
    [nodeid |-> "stale_test.py::test_stale_ids[abc]",
     has_requirements |-> TRUE, _requirements |-> <<"REQ-3", "REQ-9">>,
     has_features |-> TRUE, _features |-> <<"F9.9">>,
     hypothesis |-> FALSE, max_examples |-> 1,
     callspec |-> <<[s |-> <<"'", "a", "b", "c", "'">>]>>,
     source |-> <<>>,
     \* + a\n- b
     raises |-> [typename |-> "ValueError", value |->
         <<"+", " ", "a", "\n", "-", " ", "b">>]]

test_requirement_only ==
    [nodeid |-> "stale_test.py::test_requirement_only",
     has_requirements |-> TRUE, _requirements |-> <<"REQ-2">>,
     has_features |-> FALSE, _features |-> <<>>,
     hypothesis |-> FALSE, max_examples |-> 1,
     callspec |-> <<>>,
     source |-> <<>>,
     \* assert ok\n+ got\n- want
     raises |-> [typename |-> "AssertionError", value |->
         <<"a", "s", "s", "e", "r", "t", " ", "o", "k", "\n", "+", " ",
           "g", "o", "t", "\n", "-", " ", "w", "a", "n", "t">>]]

test_feature_only ==
    [nodeid |-> "stale_test.py::test_feature_only",
     has_requirements |-> FALSE, _requirements |-> <<>>,
     has_features |-> TRUE, _features |-> <<"F4.1">>,
     hypothesis |-> FALSE, max_examples |-> 1,
     callspec |-> <<>>,
     \* assert f(1) == 2
     source |-> <<
         <<"a", "s", "s", "e", "r", "t", " ", "f", "(", "1", ")", " ", "=",
           "=", " ", "2">>>>,
     \* assert 1 == 2
     raises |-> [typename |-> "AssertionError", value |->
         <<"a", "s", "s", "e", "r", "t", " ", "1", " ", "=", "=", " ", "2">>]]

Items ==
    {test_basic_reversal, test_reverse_twice_is_original, test_emoji_reversal,
     test_empty_string, test_length_preserved,
     test_stale_ids, test_requirement_only, test_feature_only}

\* call.when, and call.excinfo: <<>> (None) or <<the exception raised>>; the
\* setup and teardown phases are the passing ones
CallsOf(item) ==
    {[when |-> "setup", excinfo |-> <<>>],
     [when |-> "call", excinfo |-> <<>>],
     [when |-> "call", excinfo |-> <<item.raises>>],
     [when |-> "teardown", excinfo |-> <<>>]}

----------------------------------------------------------------------------
(* Failing tests for the failure details: the hook receives any item and   *)
(* any exception text.  A text is up to MaxLines of the lines below.       *)

ErrorLines ==
    {
     \* "" (an empty line)
     <<>>,
     \* assert a == b (the assert pattern)
     <<"a", "s", "s", "e", "r", "t", " ", "a", " ", "=", "=", " ", "b">>,
     \* assert a == b == e (' == ' twice)
     <<"a", "s", "s", "e", "r", "t", " ", "a", " ", "=", "=", " ", "b",
       " ", "=", "=", " ", "e">>,
     \* ASSERT x == y (the keyword in capitals)
     <<"A", "S", "S", "E", "R", "T", " ", "x", " ", "=", "=", " ", "y">>,
     \* + c (diff-style lines)
     <<"+", " ", "c">>,
     \* - d
     <<"-", " ", "d">>,
     \*   +  p  (a diff-style line with surrounding blanks)
     <<" ", " ", "+", " ", " ", "p", " ">>,
     \* + (a diff-style line with nothing after the sign)
     <<"+">>,
     \* assert ok (the keyword without ' == ')
     <<"a", "s", "s", "e", "r", "t", " ", "o", "k">>,
     \* + q == r (a diff-style line with ' == ')
     <<"+", " ", "q", " ", "=", "=", " ", "r">>,
     \* assert  == b (nothing left of ' == ')
     <<"a", "s", "s", "e", "r", "t", " ", " ", "=", "=", " ", "b">>,
     \* - assert s == t (the assert pattern behind a '-')
     <<"-", " ", "a", "s", "s", "e", "r", "t", " ", "s", " ", "=", "=",
       " ", "t">>,
     \* boom (neither pattern)
     <<"b", "o", "o", "m">>,
     \* assert 'abc' == 'xyz' (the scenario of spec.md)
     <<"a", "s", "s", "e", "r", "t", " ", "'", "a", "b", "c", "'", " ",
       "=", "=", " ", "'", "x", "y", "z", "'">>}

\* "\n".join(ls), ls not empty
RECURSIVE JoinLines(_)
JoinLines(ls) ==
    IF Len(ls) = 1 THEN ls[1]
    ELSE ls[1] \o <<"\n">> \o JoinLines(Tail(ls))

\* str(excinfo.value)
ErrorTexts ==
    {JoinLines(ls) : ls \in UNION {[1..n -> ErrorLines] : n \in 1..MaxLines}}

\* item.callspec: absent, with no parameters, with one
Callspecs ==
    {<<>>,
     <<[k \in {} |-> <<>>]>>,
     <<[s |-> <<"'", "a", "b", "c", "'">>]>>}

\* the source of the test function
Sources ==
    {
     \* inspect.getsource raises
     <<>>,
     \* x = 1 (no assert)
     <<<<"x", " ", "=", " ", "1">>>>,
     \* assert f(1) == 2\nassert g(3) == 4 (two matches)
     <<<<"a", "s", "s", "e", "r", "t", " ", "f", "(", "1", ")", " ", "=",
         "=", " ", "2", "\n", "a", "s", "s", "e", "r", "t", " ", "g",
         "(", "3", ")", " ", "=", "=", " ", "4">>>>,
     \* assert h (5) == 6 (a blank before the parenthesis)
     <<<<"a", "s", "s", "e", "r", "t", " ", "h", " ", "(", "5", ")", " ",
         "=", "=", " ", "6">>>>}

\* a test with @requirement("REQ-1") that raises AssertionError(error_msg)
failing_test(callspec, source, error_msg) ==
    [nodeid |-> "probe_test.py::test_probe",
     has_requirements |-> TRUE, _requirements |-> <<"REQ-1">>,
     has_features |-> FALSE, _features |-> <<>>,
     hypothesis |-> FALSE, max_examples |-> 1,
     callspec |-> callspec,
     source |-> source,
     raises |-> [typename |-> "AssertionError", value |-> error_msg]]

\* every text with neither parameters nor source, and every parameter and
\* source combination with two of the texts
FailingTests ==
    {failing_test(<<>>, <<>>, error_msg) : error_msg \in ErrorTexts}
        \cup {failing_test(callspec, source, error_msg) :
                 callspec \in Callspecs, source \in Sources,
                 error_msg \in {<<"b", "o", "o", "m">>,
                                <<"a", "s", "s", "e", "r", "t", " ", "'",
                                  "a", "b", "c", "'", " ", "=", "=", " ",
                                  "'", "x", "y", "z", "'">>}}

----------------------------------------------------------------------------
(* conftest.py: pytest_configure *)

\* config._coverage = {req_id: [] for req_id in REQUIREMENTS}
FreshCoverage == [req_id \in DOMAIN REQUIREMENTS |-> <<>>]

\* config._feature_coverage = {}
FreshFeatureCoverage == [feature_id \in {} |-> <<>>]

----------------------------------------------------------------------------
(* Text.  A Python str is modelled as the sequence of its characters.      *)

\* characters str.strip() removes and \s matches
Whitespace == {" ", "\n", "\t", "\r"}

LowerCase ==
    <<"a", "b", "c", "d", "e", "f", "g", "h", "i", "j", "k", "l", "m",
      "n", "o", "p", "q", "r", "s", "t", "u", "v", "w", "x", "y", "z">>

UpperCase ==
    <<"A", "B", "C", "D", "E", "F", "G", "H", "I", "J", "K", "L", "M",
      "N", "O", "P", "Q", "R", "S", "T", "U", "V", "W", "X", "Y", "Z">>

Digits == {"0", "1", "2", "3", "4", "5", "6", "7", "8", "9"}

\* characters \w matches
WordChars ==
    {LowerCase[i] : i \in 1..26} \cup {UpperCase[i] : i \in 1..26}
        \cup Digits \cup {"_"}

\* s[i:] (0-based i = k - 1)
From(s, k) == SubSeq(s, k, Len(s))

\* s.startswith(sub) at position k
StartsWithAt(s, sub, k) ==
    /\ k + Len(sub) - 1 <= Len(s)
    /\ SubSeq(s, k, k + Len(sub) - 1) = sub

\* s.find(sub) + 1: the first position of sub in s, 0 when there is none
Find(s, sub) ==
    LET hits == {k \in 1..Len(s) : StartsWithAt(s, sub, k)}
    IN  IF hits = {} THEN 0 ELSE CHOOSE k \in hits : \A h \in hits : k <= h

\* sub in s
Contains(s, sub) == sub = <<>> \/ Find(s, sub) # 0

\* s.split(sep), sep not empty
RECURSIVE Split(_, _)
Split(s, sep) ==
    LET k == Find(s, sep)
    IN  IF k = 0 THEN <<s>>
        ELSE <<SubSeq(s, 1, k - 1)>> \o Split(From(s, k + Len(sep)), sep)

\* s.replace(sub, ''), sub not empty
RECURSIVE Remove(_, _)
Remove(s, sub) ==
    LET k == Find(s, sub)
    IN  IF k = 0 THEN s
        ELSE SubSeq(s, 1, k - 1) \o Remove(From(s, k + Len(sub)), sub)

\* s.strip()
Strip(s) ==
    LET keep == {k \in 1..Len(s) : s[k] \notin Whitespace}
    IN  IF keep = {} THEN <<>>
        ELSE SubSeq(s, CHOOSE k \in keep : \A h \in keep : k <= h,
                       CHOOSE k \in keep : \A h \in keep : k >= h)

\* s.lower()
Lower(s) ==
    [k \in 1..Len(s) |->
        IF \E i \in 1..26 : UpperCase[i] = s[k]
        THEN LowerCase[CHOOSE i \in 1..26 : UpperCase[i] = s[k]]
        ELSE s[k]]

----------------------------------------------------------------------------
(* conftest.py: the failure details of pytest_runtest_makereport.          *)
(* None is <<>> and any other value v is <<v>>.                            *)

\* the smallest position >= k of s whose character is not in chars,
\* Len(s) + 1 when there is none
RECURSIVE SkipChars(_, _, _)
SkipChars(s, k, chars) ==
    IF k <= Len(s) /\ s[k] \in chars THEN SkipChars(s, k + 1, chars) ELSE k

\* the lazy (.*?)\)\s*== : the smallest position k >= from of a ")" that is
\* followed by optional whitespace and "==", no newline before it; 0 if none
RECURSIVE CloseParen(_, _)
CloseParen(s, k) ==
    IF k > Len(s) \/ s[k] = "\n" THEN 0
    ELSE IF s[k] = ")" /\ StartsWithAt(s, <<"=", "=">>, SkipChars(s, k + 1, Whitespace))
         THEN k
         ELSE CloseParen(s, k + 1)

\* a match of r'assert\s+(\w+)\((.*?)\)\s*==' starting at position i:
\* <<>> or <<[function, input]>>
MatchAssertCall(s, i) ==
    LET word == SkipChars(s, i + 6, Whitespace)
        paren == SkipChars(s, word, WordChars)
        close == CloseParen(s, paren + 1)
    IN  IF /\ StartsWithAt(s, <<"a", "s", "s", "e", "r", "t">>, i)
           /\ word > i + 6
           /\ paren > word
           /\ paren <= Len(s) /\ s[paren] = "("
           /\ close # 0
        THEN <<[function |-> SubSeq(s, word, paren - 1),
                input |-> SubSeq(s, paren + 1, close - 1)]>>
        ELSE <<>>

\* re.search(assert_pattern, source): the leftmost match
SearchAssertCall(s) ==
    LET hits == {i \in 1..Len(s) : MatchAssertCall(s, i) # <<>>}
    IN  IF hits = {} THEN <<>>
        ELSE MatchAssertCall(s, CHOOSE i \in hits : \A h \in hits : i <= h)

\* the call in the test's source taken before the parametrize arguments
StimuliSourceFirst(item) ==
    LET params == IF item.callspec # <<>>
                  THEN item.callspec[1]
                  ELSE [k \in {} |-> <<>>]
        match == IF item.source # <<>> THEN SearchAssertCall(item.source[1]) ELSE <<>>
    IN  IF match # <<>> THEN match[1]
        ELSE IF DOMAIN params # {} THEN params
        ELSE [k \in {} |-> <<>>]

\* stimuli: the parametrize arguments, else the call in the test's source;
\* an empty dict when neither is found
Stimuli(item) ==
    LET params == IF item.callspec # <<>>
                  THEN item.callspec[1]
                  ELSE [k \in {} |-> <<>>]
        match == IF item.source # <<>> THEN SearchAssertCall(item.source[1]) ELSE <<>>
    IN  IF DOMAIN params # {} THEN params
        ELSE IF match # <<>> THEN match[1]
        ELSE [k \in {} |-> <<>>]

\* "not x" for x None or a str
Falsy(x) == x = <<>> \/ x[1] = <<>>

\* the iteration leaving the keyword in the response
ScanLineKeepingKeyword(found, line) ==
    IF Contains(line, <<" ", "=", "=", " ">>)
          /\ Contains(Lower(line), <<"a", "s", "s", "e", "r", "t">>)
    THEN LET parts == Split(line, <<" ", "=", "=", " ">>)
         IN  IF Len(parts) = 2
             THEN [response |-> <<Strip(parts[1])>>,
                   expected |-> <<Strip(parts[2])>>]
             ELSE found
    ELSE IF StartsWithAt(Strip(line), <<"+">>, 1)
    THEN IF Falsy(found.response)
         THEN [found EXCEPT !.response = <<Strip(From(Strip(line), 2))>>]
         ELSE found
    ELSE IF StartsWithAt(Strip(line), <<"-">>, 1)
    THEN IF Falsy(found.expected)
         THEN [found EXCEPT !.expected = <<Strip(From(Strip(line), 2))>>]
         ELSE found
    ELSE found

\* one iteration of "for i, line in enumerate(lines)"
ScanLine(found, line) ==
    IF Contains(line, <<" ", "=", "=", " ">>)
          /\ Contains(Lower(line), <<"a", "s", "s", "e", "r", "t">>)
    THEN LET parts == Split(line, <<" ", "=", "=", " ">>)
         IN  IF Len(parts) = 2
             THEN [response |-> <<Strip(Remove(parts[1], <<"a", "s", "s", "e", "r", "t">>))>>,
                   expected |-> <<Strip(parts[2])>>]
             ELSE found
    ELSE IF StartsWithAt(Strip(line), <<"+">>, 1)
    THEN IF Falsy(found.response)
         THEN [found EXCEPT !.response = <<Strip(From(Strip(line), 2))>>]
         ELSE found
    ELSE IF StartsWithAt(Strip(line), <<"-">>, 1)
    THEN IF Falsy(found.expected)
         THEN [found EXCEPT !.expected = <<Strip(From(Strip(line), 2))>>]
         ELSE found
    ELSE found

RECURSIVE ScanLines(_, _)
ScanLines(found, lines) ==
    IF lines = <<>> THEN found
    ELSE ScanLines(ScanLine(found, Head(lines)), Tail(lines))

\* response and expected after the scan of error_msg
Extract(error_msg) ==
    IF Contains(error_msg, <<"a", "s", "s", "e", "r", "t">>)
    THEN ScanLines([response |-> <<>>, expected |-> <<>>],
                   Split(error_msg, <<"\n">>))
    ELSE [response |-> <<>>, expected |-> <<>>]

\* 'Not captured'
NotCaptured == <<"N", "o", "t", " ", "c", "a", "p", "t", "u", "r", "e", "d">>

\* the details given up as a whole when one of the three is missing
FailureDetailAllOrNothing(item, call) ==
    LET error_msg == call.excinfo[1].value
        stimuli == Stimuli(item)
        found == Extract(error_msg)
        all == /\ DOMAIN stimuli # {}
               /\ ~Falsy(found.response)
               /\ ~Falsy(found.expected)
    IN  [stimuli |-> IF all THEN [dict |-> stimuli] ELSE [str |-> NotCaptured],
         response |-> IF all THEN found.response[1] ELSE NotCaptured,
         expected |-> IF all THEN found.expected[1] ELSE NotCaptured,
         error_message |-> error_msg,
         error_type |-> call.excinfo[1].typename]

\* test_info['failure'], attached only when call.excinfo is not None;
\* stimuli is [dict |-> the mapping] or [str |-> 'Not captured']
FailureDetail(item, call) ==
    LET error_msg == call.excinfo[1].value
        stimuli == Stimuli(item)
        found == Extract(error_msg)
    IN  [stimuli |-> IF DOMAIN stimuli # {} THEN [dict |-> stimuli]
                     ELSE [str |-> NotCaptured],
         response |-> IF ~Falsy(found.response) THEN found.response[1] ELSE NotCaptured,
         expected |-> IF ~Falsy(found.expected) THEN found.expected[1] ELSE NotCaptured,
         error_message |-> error_msg,
         error_type |-> call.excinfo[1].typename]

----------------------------------------------------------------------------
(* conftest.py: pytest_runtest_makereport *)

\* a regular test counted as 0 examples
hypothesis_examples_zero(item) ==
    IF item.hypothesis THEN item.max_examples ELSE 0

\* test_info['hypothesis_examples']: the max_examples setting of a Hypothesis
\* test (item.max_examples is the value the three lookups resolve to, 100
\* when none is found), 1 for a regular test
hypothesis_examples(item) ==
    IF item.hypothesis THEN item.max_examples ELSE 1

\* outcome = "PASS" if call.excinfo is None else "FAIL"
Outcome(call) == IF call.excinfo = <<>> THEN "PASS" ELSE "FAIL"

\* test_info['failure'] of each item's failing run (call.excinfo is None or
\* the item's exception), computed once per item
FailureDetails ==
    [item \in Items |->
        FailureDetail(item, [when |-> "call", excinfo |-> <<item.raises>>])]

\* failure details kept for AssertionError only
test_info_assertions_only(item, call) ==
    IF call.excinfo # <<>> /\ call.excinfo[1].typename = "AssertionError"
    THEN [test |-> item.nodeid, outcome |-> Outcome(call),
          hypothesis_examples |-> hypothesis_examples(item),
          failure |-> FailureDetail(item, call)]
    ELSE [test |-> item.nodeid, outcome |-> Outcome(call),
          hypothesis_examples |-> hypothesis_examples(item)]

\* test_info as it is when the requirement loop is reached
test_info(item, call) ==
    IF call.excinfo # <<>>
    THEN [test |-> item.nodeid, outcome |-> Outcome(call),
          hypothesis_examples |-> hypothesis_examples(item),
          failure |-> IF item \in Items THEN FailureDetails[item]
                      ELSE FailureDetail(item, call)]
    ELSE [test |-> item.nodeid, outcome |-> Outcome(call),
          hypothesis_examples |-> hypothesis_examples(item)]

\* feature_test_info; 'examples' is test_info.get('hypothesis_examples', 1)
feature_test_info(item, call) ==
    [test |-> item.nodeid, outcome |-> Outcome(call),
     examples |-> hypothesis_examples(item)]

\* the requirement loop skipping a test identifier the entry already holds
RECURSIVE RecordRequirementsOnce(_, _, _)
RecordRequirementsOnce(cov, req_ids, info) ==
    IF req_ids = <<>> THEN cov
    ELSE LET req_id == Head(req_ids)
             cov1 == IF /\ req_id \in DOMAIN cov
                        /\ \A i \in 1..Len(cov[req_id]) : cov[req_id][i].test # info.test
                     THEN [cov EXCEPT ![req_id] = Append(@, info)]
                     ELSE cov
         IN  RecordRequirementsOnce(cov1, Tail(req_ids), info)

\* the requirement loop putting the newest event first:
\* _coverage[req_id].insert(0, test_info)
RECURSIVE RecordRequirementsFirst(_, _, _)
RecordRequirementsFirst(cov, req_ids, info) ==
    IF req_ids = <<>> THEN cov
    ELSE LET req_id == Head(req_ids)
             cov1 == IF req_id \in DOMAIN cov
                     THEN [cov EXCEPT ![req_id] = <<info>> \o @]
                     ELSE cov
         IN  RecordRequirementsFirst(cov1, Tail(req_ids), info)

\* the requirement loop written like the feature loop: a missing entry is
\* created instead of skipped
RECURSIVE RecordRequirementsCreating(_, _, _)
RecordRequirementsCreating(cov, req_ids, info) ==
    IF req_ids = <<>> THEN cov
    ELSE LET req_id == Head(req_ids)
             cov0 == IF req_id \notin DOMAIN cov
                     THEN [r \in DOMAIN cov \cup {req_id} |->
                              IF r = req_id THEN <<>> ELSE cov[r]]
                     ELSE cov
             cov1 == [cov0 EXCEPT ![req_id] = Append(@, info)]
         IN  RecordRequirementsCreating(cov1, Tail(req_ids), info)

\* for req_id in item.function._requirements:
\*     if req_id in item.config._coverage: ...append(test_info)
RECURSIVE RecordRequirementsLatest(_, _, _)
RECURSIVE RecordRequirements(_, _, _)
\* a ledger that keeps only the latest event of a requirement
RecordRequirementsLatest(cov, req_ids, info) ==
    IF req_ids = <<>> THEN cov
    ELSE LET req_id == Head(req_ids)
             cov1 == IF req_id \in DOMAIN cov
                     THEN [cov EXCEPT ![req_id] = <<info>>]
                     ELSE cov
         IN  RecordRequirementsLatest(cov1, Tail(req_ids), info)

RecordRequirements(cov, req_ids, info) ==
    IF req_ids = <<>> THEN cov
    ELSE LET req_id == Head(req_ids)
             cov1 == IF req_id \in DOMAIN cov
                     THEN [cov EXCEPT ![req_id] = Append(@, info)]
                     ELSE cov
         IN  RecordRequirements(cov1, Tail(req_ids), info)

\* for feature_id in item.function._features:
\*     if feature_id not in _feature_coverage: _feature_coverage[feature_id] = []
\*     _feature_coverage[feature_id].append(feature_test_info)
RECURSIVE RecordFeatures(_, _, _)
RecordFeatures(fcov, feature_ids, info) ==
    IF feature_ids = <<>> THEN fcov
    ELSE LET feature_id == Head(feature_ids)
             fcov0 == IF feature_id \notin DOMAIN fcov
                      THEN [f \in DOMAIN fcov \cup {feature_id} |->
                               IF f = feature_id THEN <<>> ELSE fcov[f]]
                      ELSE fcov
             fcov1 == [fcov0 EXCEPT ![feature_id] = Append(@, info)]
         IN  RecordFeatures(fcov1, Tail(feature_ids), info)

\* the guard of the whole hook body
Records(item, call) == call.when = "call" /\ item.has_requirements

pytest_runtest_makereport(item, call) ==
    /\ phase = "running"
    /\ calls < MaxCalls
    /\ calls' = calls + 1
    /\ last' = <<[item |-> item, call |-> call]>>
    /\ IF Records(item, call)
       THEN /\ coverage' = RecordRequirements(coverage, item._requirements,
                                              test_info(item, call))
            /\ feature_coverage' =
                  IF item.has_features
                  THEN RecordFeatures(feature_coverage, item._features,
                                      feature_test_info(item, call))
                  ELSE feature_coverage
       ELSE UNCHANGED <<coverage, feature_coverage>>
    /\ UNCHANGED <<phase, terminal, files, gate, viewer, registry, pool>>

----------------------------------------------------------------------------
(* Statistics, computed alike by pytest_terminal_summary and by every      *)
(* generator of simple_reports.py                                          *)

\* any() written for all(): one passing test would verify a requirement
AnyPass(tests) == \E i \in 1..Len(tests) : tests[i].outcome = "PASS"

\* all(t['outcome'] == 'PASS' for t in tests)
AllPass(tests) == \A i \in 1..Len(tests) : tests[i].outcome = "PASS"

\* total = len(REQUIREMENTS)
Total == Cardinality(DOMAIN REQUIREMENTS)

\* covered = sum(1 for tests in coverage_data.values() if tests)
Covered(cov) == Cardinality({r \in DOMAIN cov : cov[r] # <<>>})

\* the "tests and" guard dropped: all() of an empty list is True
VerifiedUnguarded(cov) == Cardinality({r \in DOMAIN cov : AllPass(cov[r])})

\* verified = sum(1 for tests in coverage_data.values()
\*                if tests and all(t['outcome'] == 'PASS' for t in tests))
Verified(cov) == Cardinality({r \in DOMAIN cov : cov[r] # <<>> /\ AllPass(cov[r])})

\* the inner loop: total_examples += test.get('hypothesis_examples', 1)
RECURSIVE ExamplesOf(_)
ExamplesOf(tests) ==
    IF tests = <<>> THEN 0
    ELSE Head(tests).hypothesis_examples + ExamplesOf(Tail(tests))

\* for tests in coverage_data.values(): for test in tests: total_tests += 1
RECURSIVE TotalTestsOver(_, _)
TotalTestsOver(cov, keys) ==
    IF keys = {} THEN 0
    ELSE LET r == CHOOSE k \in keys : TRUE
         IN  Len(cov[r]) + TotalTestsOver(cov, keys \ {r})

TotalTests(cov) == TotalTestsOver(cov, DOMAIN cov)

\* for tests in coverage_data.values(): for test in tests: total_examples += ...
RECURSIVE TotalExamplesOver(_, _)
TotalExamplesOver(cov, keys) ==
    IF keys = {} THEN 0
    ELSE LET r == CHOOSE k \in keys : TRUE
         IN  ExamplesOf(cov[r]) + TotalExamplesOver(cov, keys \ {r})

TotalExamples(cov) == TotalExamplesOver(cov, DOMAIN cov)

\* total_features = len(get_all_features())
TotalFeatures == Cardinality(DOMAIN get_all_features)

\* covered_features = len(feature_coverage_data)
CoveredFeatures(fcov) == Cardinality(DOMAIN fcov)

\* verified_features = sum(1 for tests in feature_coverage_data.values()
\*                         if tests and all(t['outcome'] == 'PASS' for t in tests))
VerifiedFeatures(fcov) ==
    Cardinality({f \in DOMAIN fcov : fcov[f] # <<>> /\ AllPass(fcov[f])})

\* round(n / d * 100, 1) in tenths of a percent (round half to even)
Percent1(n, d) ==
    LET x == n * 1000
        q == x \div d
        r == x % d
    IN  IF 2 * r < d THEN q
        ELSE IF 2 * r > d THEN q + 1
        ELSE IF q % 2 = 0 THEN q ELSE q + 1

\* round(n / d * 100) in whole percents (round half to even)
Percent0(n, d) ==
    LET x == n * 100
        q == x \div d
        r == x % d
    IN  IF 2 * r < d THEN q
        ELSE IF 2 * r > d THEN q + 1
        ELSE IF q % 2 = 0 THEN q ELSE q + 1

\* round(k / total_features * 100, 1) if total_features > 0 else 0
FeaturePercent(k) == IF TotalFeatures > 0 THEN Percent1(k, TotalFeatures) ELSE 0

\* sum(t.get('examples', 1) for t in feat_tests)
RECURSIVE FeatureExamples(_)
FeatureExamples(feat_tests) ==
    IF feat_tests = <<>> THEN 0
    ELSE Head(feat_tests).examples + FeatureExamples(Tail(feat_tests))

----------------------------------------------------------------------------
(* simple_reports.py: generate_json *)

\* report["summary"]; the percentages are in tenths of a percent
Summary(cov, fcov) ==
    [total |-> Total,
     covered |-> Covered(cov),
     verified |-> Verified(cov),
     coverage_percent |-> Percent1(Covered(cov), Total),
     verification_percent |-> Percent1(Verified(cov), Total),
     total_test_scenarios |-> TotalExamples(cov),
     total_tests |-> TotalTests(cov),
     total_features |-> TotalFeatures,
     features_covered |-> CoveredFeatures(fcov),
     features_verified |-> VerifiedFeatures(fcov),
     feature_coverage_percent |-> FeaturePercent(CoveredFeatures(fcov)),
     feature_verification_percent |-> FeaturePercent(VerifiedFeatures(fcov))]

\* feature_details[feat_id]
\* a breakdown whose verified flag asks for one PASS only
FeatureDetailAnyPass(fcov, feat_id, feat_desc) ==
    IF feat_id \in DOMAIN fcov
    THEN [description |-> feat_desc,
          covered |-> TRUE,
          verified |-> AnyPass(fcov[feat_id]),
          examples |-> FeatureExamples(fcov[feat_id])]
    ELSE [description |-> feat_desc,
          covered |-> FALSE,
          verified |-> FALSE,
          examples |-> 0]

FeatureDetail(fcov, feat_id, feat_desc) ==
    IF feat_id \in DOMAIN fcov
    THEN [description |-> feat_desc,
          covered |-> TRUE,
          verified |-> AllPass(fcov[feat_id]),
          examples |-> FeatureExamples(fcov[feat_id])]
    ELSE [description |-> feat_desc,
          covered |-> FALSE,
          verified |-> FALSE,
          examples |-> 0]

\* req_report, for req_id in REQUIREMENTS
RequirementReport(cov, fcov, req_id) ==
    LET req_spec == REQUIREMENTS[req_id]
        tests == IF req_id \in DOMAIN cov THEN cov[req_id] ELSE <<>>
        all_pass == IF tests # <<>> THEN AllPass(tests) ELSE FALSE
    IN  [description |-> req_spec.description,
         priority |-> req_spec.priority,
         covered |-> Len(tests) > 0,
         verified |-> Len(tests) > 0 /\ all_pass,
         tests |-> tests,
         features |-> [feat_id \in DOMAIN req_spec.features |->
                          FeatureDetail(fcov, feat_id, req_spec.features[feat_id])]]

\* the details built from the requirements that have tests, not the registry
RequirementsOfCovered(cov, fcov) ==
    [req_id \in {r \in DOMAIN cov : cov[r] # <<>>} |->
        RequirementReport(cov, fcov, req_id)]

\* report["requirements"]
RequirementsOf(cov, fcov) ==
    [req_id \in DOMAIN REQUIREMENTS |-> RequirementReport(cov, fcov, req_id)]

\* the report written to report.json; now is datetime.now()
generate_json(cov, fcov, now) ==
    [timestamp |-> now,
     summary |-> Summary(cov, fcov),
     requirements |-> RequirementsOf(cov, fcov),
     feature_coverage |-> fcov]

----------------------------------------------------------------------------
(* simple_reports.py: the renderers.  Each is modelled by the figures it   *)
(* computes and shows.                                                     *)

\* the status class of the "Detailed Requirements" blocks:
\* if not tests / elif all(PASS) / else
Status(tests) ==
    IF tests = <<>> THEN "uncovered"
    ELSE IF AllPass(tests) THEN "verified"
    ELSE "failing"

StatusOf(cov) ==
    [req_id \in DOMAIN REQUIREMENTS |->
        Status(IF req_id \in DOMAIN cov THEN cov[req_id] ELSE <<>>)]

\* the "Feature Coverage" figure taken from the covered features
generate_html_covered_features(cov, fcov) ==
    [total |-> Total,
     verified |-> Verified(cov),
     coverage_percent |-> Percent0(Covered(cov), Total),
     total_test_scenarios |-> TotalExamples(cov),
     feature_pct |-> FeaturePercent(CoveredFeatures(fcov)),
     status |-> StatusOf(cov)]

\* coverage_percent is round(covered/total*100), a whole percent; feature_pct
\* is the share of verified features, shown under "Feature Coverage"
generate_html(cov, fcov) ==
    [total |-> Total,
     verified |-> Verified(cov),
     coverage_percent |-> Percent0(Covered(cov), Total),
     total_test_scenarios |-> TotalExamples(cov),
     feature_pct |-> FeaturePercent(VerifiedFeatures(fcov)),
     status |-> StatusOf(cov)]

generate_markdown(cov, fcov) ==
    [total |-> Total,
     covered |-> Covered(cov),
     coverage_percent |-> Percent1(Covered(cov), Total),
     verified |-> Verified(cov),
     verification_percent |-> Percent1(Verified(cov), Total),
     total_test_scenarios |-> TotalExamples(cov),
     features_verified |-> VerifiedFeatures(fcov),
     total_features |-> TotalFeatures,
     feature_pct |-> FeaturePercent(VerifiedFeatures(fcov)),
     status |-> StatusOf(cov)]

generate_table(cov, fcov) ==
    [verified |-> Verified(cov),
     total |-> Total,
     verification_percent |-> Percent1(Verified(cov), Total),
     total_test_scenarios |-> TotalExamples(cov),
     total_tests |-> TotalTests(cov),
     features_verified |-> VerifiedFeatures(fcov),
     total_features |-> TotalFeatures,
     feature_pct |-> FeaturePercent(VerifiedFeatures(fcov))]

\* datetime.now() when the reports are written: later than the report being
\* overwritten.  Only the order of the instants is kept: the n-th build in
\* the directory is stamped n.
Now(dir) ==
    IF "report.json" \in DOMAIN dir THEN dir["report.json"].timestamp + 1 ELSE 1

\* a build that extends the test lists of the report it finds in the
\* directory instead of replacing them
generate_reports_extending(dir, cov, fcov, now) ==
    [name \in DOMAIN dir \cup
              {"report.json", "report.html", "report.md", "report_table.txt"} |->
        CASE name = "report.json" ->
               IF name \in DOMAIN dir
               THEN LET old == dir[name].requirements
                        cov1 == [r \in DOMAIN cov |->
                                    IF r \in DOMAIN old THEN old[r].tests \o cov[r]
                                    ELSE cov[r]]
                    IN  generate_json(cov1, fcov, now)
               ELSE generate_json(cov, fcov, now)
          [] name = "report.html" -> generate_html(cov, fcov)
          [] name = "report.md" -> generate_markdown(cov, fcov)
          [] name = "report_table.txt" -> generate_table(cov, fcov)
          [] OTHER -> dir[name]]

\* generate_reports: the four files, written over whatever was there
generate_reports(dir, cov, fcov, now) ==
    [name \in DOMAIN dir \cup
              {"report.json", "report.html", "report.md", "report_table.txt"} |->
        CASE name = "report.json" -> generate_json(cov, fcov, now)
          [] name = "report.html" -> generate_html(cov, fcov)
          [] name = "report.md" -> generate_markdown(cov, fcov)
          [] name = "report_table.txt" -> generate_table(cov, fcov)
          [] OTHER -> dir[name]]

----------------------------------------------------------------------------
(* conftest.py: pytest_terminal_summary *)

\* the lines written to the terminal
TerminalReport(cov, fcov) ==
    [total |-> Total,
     covered |-> Covered(cov),
     verified |-> Verified(cov),
     total_test_scenarios |-> TotalExamples(cov),
     total_tests |-> TotalTests(cov),
     verified_ids |-> {r \in DOMAIN cov : cov[r] # <<>> /\ AllPass(cov[r])},
     failing_ids |-> {r \in DOMAIN cov : cov[r] # <<>> /\ ~AllPass(cov[r])},
     uncovered_ids |-> {r \in DOMAIN cov : cov[r] = <<>>},
     total_features |-> TotalFeatures,
     features_covered |-> CoveredFeatures(fcov),
     feature_coverage_percent |-> FeaturePercent(CoveredFeatures(fcov)),
     features_verified |-> VerifiedFeatures(fcov),
     feature_verification_percent |-> FeaturePercent(VerifiedFeatures(fcov))]

\* a summary that drops the undeclared feature IDs from the ledger it reports
pytest_terminal_summary_pruning ==
    /\ phase = "running"
    /\ Now(files) <= MaxBuilds
    /\ phase' = "done"
    /\ terminal' = <<TerminalReport(coverage, feature_coverage)>>
    /\ files' = generate_reports(files, coverage, feature_coverage, Now(files))
    /\ feature_coverage' =
          [f \in DOMAIN feature_coverage \cap DOMAIN get_all_features |->
              feature_coverage[f]]
    /\ UNCHANGED <<coverage, calls, last, gate, viewer, registry, pool>>

\* prints the statistics, then generate_reports(coverage, feature_coverage_data)
pytest_terminal_summary ==
    /\ phase = "running"
    /\ Now(files) <= MaxBuilds
    /\ phase' = "done"
    /\ terminal' = <<TerminalReport(coverage, feature_coverage)>>
    /\ files' = generate_reports(files, coverage, feature_coverage, Now(files))
    /\ UNCHANGED <<coverage, feature_coverage, calls, last, gate, viewer, registry, pool>>

\* the next pytest run in the same directory: a new config object
pytest_configure ==
    /\ phase = "done"
    /\ phase' = "running"
    /\ coverage' = FreshCoverage
    /\ feature_coverage' = FreshFeatureCoverage
    /\ last' = <<>>
    /\ terminal' = <<>>
    /\ UNCHANGED <<calls, files, gate, viewer, registry, pool>>

----------------------------------------------------------------------------
(* check_coverage.py *)

\* --min-verification default=95.0, in tenths of a percent
DefaultMinVerification == 950

\* the thresholds the gate is run with
MinVerifications == {DefaultMinVerification, 500}

\* a gate that asks for more than the threshold
check_coverage_above(dir, min_verification) ==
    IF "report.json" \notin DOMAIN dir
    THEN [found |-> FALSE, passed |-> FALSE, uncovered |-> {}, failing |-> {}]
    ELSE LET report == dir["report.json"]
             verification_pct == report.summary.verification_percent
         IN  IF verification_pct > min_verification
             THEN [found |-> TRUE, passed |-> TRUE,
                   uncovered |-> {}, failing |-> {}]
             ELSE [found |-> TRUE, passed |-> FALSE,
                   uncovered |-> {req_id \in DOMAIN report.requirements :
                                     ~report.requirements[req_id].covered},
                   failing |-> {req_id \in DOMAIN report.requirements :
                                   /\ report.requirements[req_id].covered
                                   /\ ~report.requirements[req_id].verified}]

\* check_coverage(min_verification) run in directory dir: whether
\* report.json was found, the value returned, and the requirement IDs
\* printed as uncovered and as failing
check_coverage(dir, min_verification) ==
    IF "report.json" \notin DOMAIN dir
    THEN [found |-> FALSE, passed |-> FALSE, uncovered |-> {}, failing |-> {}]
    ELSE LET report == dir["report.json"]
             verification_pct == report.summary.verification_percent
         IN  IF verification_pct >= min_verification
             THEN [found |-> TRUE, passed |-> TRUE,
                   uncovered |-> {}, failing |-> {}]
             ELSE [found |-> TRUE, passed |-> FALSE,
                   uncovered |-> {req_id \in DOMAIN report.requirements :
                                     ~report.requirements[req_id].covered},
                   failing |-> {req_id \in DOMAIN report.requirements :
                                   /\ report.requirements[req_id].covered
                                   /\ ~report.requirements[req_id].verified}]

\* python check_coverage.py --min-verification m:
\* sys.exit(0 if passed else 1)
check_coverage_main ==
    /\ \E min_verification \in MinVerifications :
          LET result == check_coverage(files, min_verification)
          IN  gate' = <<[min_verification |-> min_verification,
                         result |-> result,
                         exit_status |-> IF result.passed THEN 0 ELSE 1]>>
    /\ UNCHANGED <<coverage, feature_coverage, phase, calls, last, terminal, files, viewer, registry, pool>>

----------------------------------------------------------------------------
(* The state machine *)

\* after pytest_configure of the first run, in a directory with no reports
----------------------------------------------------------------------------
(* show_table.py, show_uncovered.py, view_reports.py *)

\* What a viewer process did: whether it printed the advice to run the tests
\* first, the exception it ended with if any, what it showed otherwise.
Outcome_of(run_tests_first, raised, shown) ==
    [run_tests_first |-> run_tests_first, raised |-> raised, shown |-> shown]

\* show_table.py print_table() in directory dir, with its return value
print_table(dir) ==
    IF "report.json" \notin DOMAIN dir
    THEN [success |-> FALSE, out |-> Outcome_of(TRUE, <<>>, <<>>)]
    ELSE LET report == dir["report.json"]
             rows == [req_id \in DOMAIN report.requirements |->
                 LET req_data == report.requirements[req_id]
                     tests == req_data.tests
                 IN  IF tests = <<>>
                     THEN <<[req_id |-> req_id,
                             description |-> req_data.description,
                             test |-> "No tests",
                             status |-> "UNCOVERED",
                             examples |-> 0]>>
                     ELSE [i \in 1..Len(tests) |->
                             [req_id |-> IF i = 1 THEN req_id ELSE "",
                              description |->
                                  IF i = 1 THEN req_data.description ELSE "",
                              test |-> tests[i].test,
                              status |-> IF tests[i].outcome = "PASS"
                                         THEN "PASS" ELSE "FAIL",
                              examples |-> tests[i].hypothesis_examples]]]
         IN  [success |-> TRUE,
              out |-> Outcome_of(FALSE, <<>>,
                         <<[timestamp |-> report.timestamp,
                            verified |-> report.summary.verified,
                            total |-> report.summary.total,
                            verification_percent |->
                                report.summary.verification_percent,
                            total_test_scenarios |->
                                report.summary.total_test_scenarios,
                            rows |-> rows]>>)]

\* python show_table.py
show_table_main ==
    /\ LET result == print_table(files)
       IN  viewer' = <<[script |-> "show_table.py", argv |-> <<>>,
                        out |-> result.out,
                        exit_status |-> IF result.success THEN 0 ELSE 1]>>
    /\ UNCHANGED <<coverage, feature_coverage, phase, calls, last, terminal, files,
                   gate,
                   registry, pool>>

\* show_uncovered.py show_uncovered_features() in directory dir: open() is
\* not guarded, so without report.json the function ends with the exception
show_uncovered_features(dir) ==
    IF "report.json" \notin DOMAIN dir
    THEN Outcome_of(FALSE, <<"FileNotFoundError">>, <<>>)
    ELSE LET report == dir["report.json"]
             uncovered == [req_id \in DOMAIN report.requirements |->
                 {feat_id \in DOMAIN report.requirements[req_id].features :
                     ~report.requirements[req_id].features[feat_id].covered}]
         IN  Outcome_of(FALSE, <<>>,
                 <<[uncovered |-> uncovered,
                    features_verified |-> report.summary.features_verified,
                    total_features |-> report.summary.total_features,
                    feature_coverage_percent |->
                        report.summary.feature_coverage_percent,
                    missing |-> report.summary.total_features
                                  - report.summary.features_verified]>>)

\* python show_uncovered.py: the interpreter ends an uncaught exception
\* with a traceback and exit status 1
show_uncovered_main ==
    /\ LET out == show_uncovered_features(files)
       IN  viewer' = <<[script |-> "show_uncovered.py", argv |-> <<>>,
                        out |-> out,
                        exit_status |-> IF out.raised # <<>> THEN 1 ELSE 0]>>
    /\ UNCHANGED <<coverage, feature_coverage, phase, calls, last, terminal, files,
                   gate,
                   registry, pool>>

REPORTS ==
    [json |-> "report.json", html |-> "report.html", md |-> "report.md",
     table |-> "report_table.txt", markdown |-> "report.md"]

DOCS ==
    [readme |-> "README.md", start |-> "START_HERE.txt",
     quick |-> "QUICK_REFERENCE.md", cheat |-> "QUICK_REFERENCE.md",
     complete |-> "COMPLETE_README.md",
     troubleshooting |-> "TROUBLESHOOTING.md",
     viewing |-> "VIEWING_GUIDE.md", view |-> "VIEWING_GUIDE.md"]

\* view_reports.py view_json_summary(filepath)
view_json_summary(dir, filepath) ==
    LET summary == dir[filepath].summary
    IN  [summary |-> summary]

\* view_reports.py view_file(filepath, format_type) with sys.argv = argv, on
\* a machine where bat and a browser command are or are not installed
view_file(dir, argv, filepath, format_type, bat, browser) ==
    IF filepath \notin DOMAIN dir
    THEN [success |-> FALSE, out |-> Outcome_of(TRUE, <<>>, <<>>)]
    ELSE IF format_type = <<"json">> /\ \A i \in 1..Len(argv) : argv[i] # "--full"
    THEN [success |-> TRUE,
          out |-> Outcome_of(FALSE, <<>>, <<view_json_summary(dir, filepath)>>)]
    ELSE IF filepath \in {"report.html"}
    THEN [success |-> TRUE,
          out |-> Outcome_of(FALSE, <<>>, <<[opened |-> browser,
                                            filepath |-> filepath]>>)]
    ELSE [success |-> TRUE,
          out |-> Outcome_of(FALSE, <<>>,
                     <<[with |-> IF bat THEN "bat" ELSE "cat",
                        content |-> dir[filepath]]>>)]

\* view_reports.py list_reports()
list_reports(dir) ==
    Outcome_of(FALSE, <<>>,
        <<[exists |-> [key \in DOMAIN REPORTS \ {"markdown"} |->
                          REPORTS[key] \in DOMAIN dir]]>>)

\* view_reports.py main() with sys.argv[1:] = argv: the value view_file
\* returns is dropped, so the process always ends with status 0
view_reports(dir, argv, bat, browser) ==
    IF Len(argv) < 1 \/ argv[1] \in {"-h", "--help", "help"}
    THEN list_reports(dir)
    ELSE LET report_key == argv[1]
         IN  IF report_key \in DOMAIN REPORTS
             THEN view_file(dir, argv, REPORTS[report_key], <<report_key>>,
                            bat, browser).out
             ELSE IF report_key \in DOMAIN DOCS
             THEN view_file(dir, argv, DOCS[report_key], <<>>, bat, browser).out
             ELSE IF report_key \in DOMAIN dir
             THEN view_file(dir, argv, report_key, <<>>, bat, browser).out
             ELSE Outcome_of(FALSE, <<>>, <<[unknown |-> report_key]>>)

\* command lines of view_reports.py explored
ViewArgs ==
    {<<>>, <<"json">>, <<"json", "--full">>, <<"html">>, <<"table">>,
     <<"markdown">>, <<"readme">>, <<"report.json">>, <<"bogus">>}

\* python view_reports.py argv
view_reports_main ==
    /\ \E argv \in ViewArgs : \E bat \in BOOLEAN : \E browser \in BOOLEAN :
          viewer' = <<[script |-> "view_reports.py", argv |-> argv,
                       out |-> view_reports(files, argv, bat, browser),
                       exit_status |-> 0]>>
    /\ UNCHANGED <<coverage, feature_coverage, phase, calls, last, terminal, files,
                   gate,
                   registry, pool>>

----------------------------------------------------------------------------
(* pytest_runtest_makereport called by parallel workers, every call inside
   one critical section *)

\* workers of the host
MaxWorkers == 2

Workers == 1..MaxWorkers

Idle == [at |-> "idle"]

IdlePool == [lock |-> <<>>, pc |-> [w \in Workers |-> Idle], order |-> <<>>]

\* tests the workers run
WorkerItems == {test_basic_reversal, test_empty_string, test_feature_only}

WorkerCalls == {[when |-> "call", excinfo |-> <<>>]}
                  \cup {[when |-> "call", excinfo |-> <<item.raises>>] :
                           item \in WorkerItems}

\* a worker has a test outcome to report
WorkerTake(w) ==
    /\ phase = "running"
    /\ calls < MaxCalls
    /\ pool.pc[w].at = "idle"
    /\ \E item \in WorkerItems :
          \E call \in {c \in WorkerCalls :
                          c.excinfo = <<>> \/ c.excinfo = <<item.raises>>} :
              pool' = [pool EXCEPT !.pc[w] =
                          [at |-> "waiting", item |-> item, call |-> call,
                           i |-> 1, missing |-> FALSE]]
    /\ calls' = calls + 1
    /\ UNCHANGED <<coverage, feature_coverage, phase, last, terminal, files, gate,
                   viewer, registry>>

\* the critical section is entered
WorkerAcquire(w) ==
    /\ pool.pc[w].at = "waiting"
    /\ pool.lock = <<>>
    /\ pool' = [pool EXCEPT !.lock = <<w>>, !.pc[w].at = "guard"]
    /\ UNCHANGED <<coverage, feature_coverage, phase, calls, last, terminal, files,
                   gate, viewer, registry>>

\* where a worker goes after the requirement loop, after feature i
AfterRequirements(item) ==
    IF item.has_features /\ item._features # <<>> THEN "feature_check" ELSE "release"

AfterFeature(item, i) ==
    IF i < Len(item._features) THEN "feature_check" ELSE "release"

\* if call.when == "call" and hasattr(item.function, '_requirements'):
WorkerGuard(w) ==
    /\ pool.pc[w].at = "guard"
    /\ LET item == pool.pc[w].item
           call == pool.pc[w].call
       IN  pool' = [pool EXCEPT !.pc[w].at =
                       IF ~Records(item, call) THEN "release"
                       ELSE IF item._requirements # <<>> THEN "requirements"
                       ELSE AfterRequirements(item)]
    /\ UNCHANGED <<coverage, feature_coverage, phase, calls, last, terminal, files,
                   gate, viewer, registry>>

\* one round of: for req_id in requirements: if req_id in _coverage: append
WorkerRequirement(w) ==
    /\ pool.pc[w].at = "requirements"
    /\ LET item == pool.pc[w].item
           call == pool.pc[w].call
           i == pool.pc[w].i
       IN  /\ coverage' = RecordRequirements(coverage, <<item._requirements[i]>>,
                                              test_info(item, call))
           /\ pool' = IF i < Len(item._requirements)
                       THEN [pool EXCEPT !.pc[w].i = i + 1]
                       ELSE [pool EXCEPT !.pc[w].i = 1,
                                         !.pc[w].at = AfterRequirements(item)]
    /\ UNCHANGED <<feature_coverage, phase, calls, last, terminal, files, gate,
                   viewer, registry>>

\* if feature_id not in item.config._feature_coverage:
WorkerFeatureCheck(w) ==
    /\ pool.pc[w].at = "feature_check"
    /\ LET feature_id == pool.pc[w].item._features[pool.pc[w].i]
           missing == feature_id \notin DOMAIN feature_coverage
       IN  pool' = [pool EXCEPT !.pc[w].missing = missing,
                                !.pc[w].at = IF missing THEN "feature_create"
                                             ELSE "feature_append"]
    /\ UNCHANGED <<coverage, feature_coverage, phase, calls, last, terminal, files,
                   gate, viewer, registry>>

\* item.config._feature_coverage[feature_id] = []
WorkerFeatureCreate(w) ==
    /\ pool.pc[w].at = "feature_create"
    /\ LET feature_id == pool.pc[w].item._features[pool.pc[w].i]
       IN  feature_coverage' =
              [f \in DOMAIN feature_coverage \cup {feature_id} |->
                  IF f = feature_id THEN <<>> ELSE feature_coverage[f]]
    /\ pool' = [pool EXCEPT !.pc[w].at = "feature_append"]
    /\ UNCHANGED <<coverage, phase, calls, last, terminal, files, gate, viewer,
                   registry>>

\* item.config._feature_coverage[feature_id].append({...})
WorkerFeatureAppend(w) ==
    /\ pool.pc[w].at = "feature_append"
    /\ LET item == pool.pc[w].item
           i == pool.pc[w].i
       IN  /\ feature_coverage' =
                 [feature_coverage EXCEPT ![item._features[i]] =
                     Append(@, feature_test_info(item, pool.pc[w].call))]
           /\ pool' = [pool EXCEPT !.pc[w].i = i + 1,
                                    !.pc[w].at = AfterFeature(item, i)]
    /\ UNCHANGED <<coverage, phase, calls, last, terminal, files, gate, viewer,
                   registry>>

\* the critical section is left
WorkerRelease(w) ==
    /\ pool.pc[w].at = "release"
    /\ pool' = [lock |-> <<>>,
                pc |-> [pool.pc EXCEPT ![w] = Idle],
                order |-> Append(pool.order, [item |-> pool.pc[w].item,
                                              call |-> pool.pc[w].call])]
    /\ UNCHANGED <<coverage, feature_coverage, phase, calls, last, terminal, files,
                   gate, viewer, registry>>

NextWorkers ==
    \E w \in Workers :
        \/ WorkerTake(w)
        \/ WorkerAcquire(w)
        \/ WorkerGuard(w)
        \/ WorkerRequirement(w)
        \/ WorkerFeatureCheck(w)
        \/ WorkerFeatureCreate(w)
        \/ WorkerFeatureAppend(w)
        \/ WorkerRelease(w)

Init ==
    /\ coverage = FreshCoverage
    /\ feature_coverage = FreshFeatureCoverage
    /\ phase = "running"
    /\ calls = 0
    /\ last = <<>>
    /\ terminal = <<>>
    /\ files = [name \in {} |-> <<>>]
    /\ gate = <<>>
    /\ viewer = <<>>
    /\ registry = <<>>
    /\ pool = IdlePool

\* generate_reports(coverage, feature_coverage) called once more on the
\* ledger of the finished run
generate_reports_again ==
    /\ phase = "done"
    /\ Now(files) <= MaxBuilds
    /\ files' = generate_reports(files, coverage, feature_coverage, Now(files))
    /\ UNCHANGED <<coverage, feature_coverage, phase, calls, last, terminal, gate, viewer, registry, pool>>

MakeReport ==
    \E item \in Items : \E call \in CallsOf(item) :
        pytest_runtest_makereport(item, call)

Next ==
    \/ MakeReport
    \/ pytest_terminal_summary
    \/ pytest_configure

Spec == Init /\ [][Next]_vars

\* one run, with the gate run at any moment
NextGate ==
    \/ MakeReport
    \/ pytest_terminal_summary
    \/ check_coverage_main

SpecGate == Init /\ [][NextGate]_vars

----------------------------------------------------------------------------
(* simple_spec.py put to the import with other REQUIREMENTS literals *)

\* requirement declarations in a REQUIREMENTS literal
MaxRequirements == 2

\* feature declarations in one requirement
MaxFeatures == 2

SeqsUpTo(S, n) == UNION {[1..k -> S] : k \in 0..n}

\* A dict display {k1: v1, k2: v2, ...} given as the pairs <<k, v>> in the
\* order written: a key written again keeps its first position and takes
\* the later value; nothing is raised.
RECURSIVE DictDisplay(_)
DictDisplay(pairs) ==
    IF pairs = <<>> THEN [keys |-> <<>>, at |-> [k \in {} |-> <<>>]]
    ELSE LET front == DictDisplay(SubSeq(pairs, 1, Len(pairs) - 1))
             k == pairs[Len(pairs)][1]
             v == pairs[Len(pairs)][2]
             seen == \E i \in 1..Len(front.keys) : front.keys[i] = k
         IN  [keys |-> IF seen THEN front.keys ELSE Append(front.keys, k),
              at |-> [x \in DOMAIN front.at \cup {k} |->
                         IF x = k THEN v ELSE front.at[x]]]

\* REQUIREMENTS literals tried: up to MaxRequirements declarations
\* <<req_id, features>>, the features of each being up to MaxFeatures
\* declarations <<feat_id, description>>
RegistrySources ==
    SeqsUpTo({"REQ-1", "REQ-2"}
                \X SeqsUpTo({"F1.1", "F1.2"} \X {"handles it"}, MaxFeatures),
             MaxRequirements)

\* The REQUIREMENTS dict the literal evaluates to
RequirementsOfSource(source) ==
    DictDisplay([i \in 1..Len(source) |->
                    <<source[i][1],
                      [description |-> "described", priority |-> "high",
                       features |-> DictDisplay(source[i][2])]>>])

\* get_all_features() over a REQUIREMENTS dict: the assignment
\* all_features[feat_id] = ... makes the last requirement declaring a
\* feature its owner
RECURSIVE get_all_features_of(_, _)
get_all_features_of(requirements, n) ==
    IF n = 0 THEN [f \in {} |-> <<>>]
    ELSE LET all_features == get_all_features_of(requirements, n - 1)
             req_id == requirements.keys[n]
             features == requirements.at[req_id].features
         IN  [f \in DOMAIN all_features \cup DOMAIN features.at |->
                 IF f \in DOMAIN features.at
                 THEN [description |-> features.at[f], requirement |-> req_id]
                 ELSE all_features[f]]

\* What importing simple_spec leaves: no statement of the module raises
import_simple_spec(source) ==
    LET requirements == RequirementsOfSource(source)
    IN  [error |-> <<>>,
         REQUIREMENTS |-> requirements,
         all_features |-> get_all_features_of(requirements, Len(requirements.keys))]

\* import simple_spec
LoadRegistry ==
    /\ registry # <<>>
    /\ registry[1].loaded = <<>>
    /\ registry' = <<[registry[1] EXCEPT
                        !.loaded = <<import_simple_spec(registry[1].source)>>]>>
    /\ UNCHANGED <<coverage, feature_coverage, phase, calls, last, terminal, files,
                   gate, viewer, pool>>

InitLoad ==
    /\ coverage = FreshCoverage
    /\ feature_coverage = FreshFeatureCoverage
    /\ phase = "running"
    /\ calls = 0
    /\ last = <<>>
    /\ terminal = <<>>
    /\ files = [name \in {} |-> <<>>]
    /\ gate = <<>>
    /\ viewer = <<>>
    /\ \E source \in RegistrySources :
          registry = <<[source |-> source, loaded |-> <<>>]>>
    /\ pool = IdlePool

NextLoad == LoadRegistry

SpecLoad == InitLoad /\ [][NextLoad]_vars

SpecWorkers == Init /\ [][NextWorkers]_vars

\* A test run and the viewer scripts, which read what it wrote
NextView ==
    \/ MakeReport
    \/ pytest_terminal_summary
    \/ show_table_main
    \/ show_uncovered_main
    \/ view_reports_main

SpecView == Init /\ [][NextView]_vars

\* the hook called once, on a failing test
ExtractFailure ==
    /\ calls = 0
    /\ \E item \in FailingTests :
          pytest_runtest_makereport(item, [when |-> "call",
                                           excinfo |-> <<item.raises>>])

NextExtract == ExtractFailure

SpecExtract == Init /\ [][NextExtract]_vars

\* one run, after which the reports may be generated again
NextRebuild ==
    \/ MakeReport
    \/ pytest_terminal_summary
    \/ generate_reports_again

SpecRebuild == Init /\ [][NextRebuild]_vars

----------------------------------------------------------------------------
(* Properties *)

\* C1: every declared requirement is in exactly one of three states decided
\* by its ledger entry alone: uncovered (covered and verified both false) iff
\* it has no event, verified (both true) iff it has an event and every event
\* is PASS, failing (covered, not verified) iff it has a FAIL event; so
\* verified implies covered.  The terminal summary and report.json agree.
C1_ThreeStates ==
    \A r \in DOMAIN REQUIREMENTS :
        LET d == RequirementReport(coverage, feature_coverage, r)
            events == coverage[r]
            hasFail == \E i \in 1..Len(events) : events[i].outcome = "FAIL"
            hasEvent == Len(events) >= 1
        IN  /\ (~d.covered /\ ~d.verified) <=> ~hasEvent
            /\ (d.covered /\ d.verified) <=> (hasEvent /\ ~hasFail)
            /\ (d.covered /\ ~d.verified) <=> hasFail
            /\ d.verified => d.covered
            /\ terminal # <<>> =>
                  /\ r \in terminal[1].uncovered_ids <=> ~hasEvent
                  /\ r \in terminal[1].verified_ids <=> (hasEvent /\ ~hasFail)
                  /\ r \in terminal[1].failing_ids <=> hasFail
            /\ phase = "done" =>
                  files["report.json"].requirements[r] = d

\* C1 witness: a report in which one requirement has a PASS and a FAIL event
\* and is failing, another is verified and another uncovered
C1_Witness ==
    /\ phase = "done"
    /\ \E r1, r2, r3 \in DOMAIN REQUIREMENTS :
          LET req == files["report.json"].requirements
          IN  /\ \E i, j \in 1..Len(coverage[r1]) :
                    /\ coverage[r1][i].outcome = "PASS"
                    /\ coverage[r1][j].outcome = "FAIL"
              /\ req[r1].covered /\ ~req[r1].verified
              /\ req[r2].covered /\ req[r2].verified
              /\ ~req[r3].covered /\ ~req[r3].verified

\* C2: the summary counts each recorded invocation once, however many
\* requirements it was filed under: a recorded outcome that claims at least
\* one declared requirement raises total_tests by 1 and total_test_scenarios
\* by its example count.
C2_CountedOnce ==
    [][(calls' = calls + 1 /\ Records(last'[1].item, last'[1].call)
          /\ \E i \in DOMAIN last'[1].item._requirements :
                last'[1].item._requirements[i] \in DOMAIN REQUIREMENTS)
       => LET before == Summary(coverage, feature_coverage)
              after == Summary(coverage', feature_coverage')
          IN  /\ after.total_tests = before.total_tests + 1
              /\ after.total_test_scenarios =
                    before.total_test_scenarios
                      + hypothesis_examples(last'[1].item)]_vars

\* C3: a recorded outcome that claims an undeclared requirement ID creates no
\* entry for it, is appended to every declared requirement it claims (once
\* per mention) and leaves the other entries alone; the keys of the
\* requirement ledger are the declared requirement IDs at every step.
C3_UnknownRequirementIgnored ==
    [][/\ DOMAIN coverage = DOMAIN REQUIREMENTS
       /\ DOMAIN coverage' = DOMAIN REQUIREMENTS
       /\ (calls' = calls + 1 /\ Records(last'[1].item, last'[1].call))
          => LET item == last'[1].item
                 info == test_info(item, last'[1].call)
             IN  \A r \in DOMAIN REQUIREMENTS :
                    LET n == Cardinality({i \in DOMAIN item._requirements :
                                             item._requirements[i] = r})
                    IN  /\ Len(coverage'[r]) = Len(coverage[r]) + n
                        /\ SubSeq(coverage'[r], 1, Len(coverage[r])) = coverage[r]
                        /\ \A i \in Len(coverage[r]) + 1 .. Len(coverage'[r]) :
                              coverage'[r][i] = info]_vars

\* C3 witness: the latest recorded outcome claimed REQ-9, which is not
\* declared, and REQ-3, whose entry ends with that outcome
C3_Witness ==
    /\ last # <<>>
    /\ Records(last[1].item, last[1].call)
    /\ \E i \in DOMAIN last[1].item._requirements :
          last[1].item._requirements[i] \notin DOMAIN REQUIREMENTS
    /\ coverage["REQ-3"] # <<>>
    /\ coverage["REQ-3"][Len(coverage["REQ-3"])].test = last[1].item.nodeid
    /\ coverage["REQ-1"] # <<>>

\* C4: a recorded outcome that claims an undeclared feature ID creates no
\* feature ledger entry for it, and when it claims no declared feature it
\* leaves features_covered, features_verified and both feature percentages
\* unchanged.
C4_UnknownFeatureIgnored ==
    [][(calls' = calls + 1 /\ Records(last'[1].item, last'[1].call)
          /\ last'[1].item.has_features)
       => LET feats == last'[1].item._features
              unknown == {feats[i] : i \in DOMAIN feats} \ DOMAIN get_all_features
              before == Summary(coverage, feature_coverage)
              after == Summary(coverage', feature_coverage')
          IN  /\ \A f \in unknown : f \notin DOMAIN feature_coverage'
              /\ (unknown # {} /\ \A i \in DOMAIN feats : feats[i] \in unknown)
                 => /\ after.features_covered = before.features_covered
                    /\ after.features_verified = before.features_verified
                    /\ after.feature_coverage_percent
                          = before.feature_coverage_percent
                    /\ after.feature_verification_percent
                          = before.feature_verification_percent]_vars

C6_FeatureMetrics ==
    LET s == Summary(coverage, feature_coverage)
    IN  /\ s.features_verified <= s.features_covered
        /\ s.features_covered <= s.total_features
        /\ s.feature_verification_percent <= s.feature_coverage_percent
        /\ 0 <= s.feature_verification_percent
        /\ s.feature_coverage_percent <= 1000
        /\ s.features_covered =
              Cardinality({f \in DOMAIN get_all_features :
                              f \in DOMAIN feature_coverage
                              /\ feature_coverage[f] # <<>>})

\* C7: total_test_scenarios >= total_tests, every recorded event having an
\* example count of at least 1.
C7_ScenariosAtLeastTests ==
    /\ \A r \in DOMAIN coverage : \A i \in 1..Len(coverage[r]) :
          coverage[r][i].hypothesis_examples >= 1
    /\ \A s \in {Summary(coverage, feature_coverage)}
                 \cup (IF "report.json" \in DOMAIN files
                       THEN {files["report.json"].summary} ELSE {}) :
          s.total_test_scenarios >= s.total_tests

\* C7 witness: a report over a regular test and a property-based one
C7_Witness ==
    /\ phase = "done"
    /\ \E r1, r2 \in DOMAIN coverage :
          /\ \E i \in 1..Len(coverage[r1]) : coverage[r1][i].hypothesis_examples = 1
          /\ \E i \in 1..Len(coverage[r2]) : coverage[r2][i].hypothesis_examples > 1
    /\ files["report.json"].summary.total_test_scenarios
          > files["report.json"].summary.total_tests
    /\ files["report.json"].summary.total_tests >= 2

\* C8: whatever IDs the tests claimed, summary.total is the number of declared
\* requirements and report.requirements has one detail per declared
\* requirement and none for any other ID.
C8_DeclaredDenominator ==
    "report.json" \in DOMAIN files =>
        LET report == files["report.json"]
        IN  /\ report.summary.total = Cardinality(DOMAIN REQUIREMENTS)
            /\ DOMAIN report.requirements = DOMAIN REQUIREMENTS
            /\ \A r \in DOMAIN REQUIREMENTS :
                  report.requirements[r].description = REQUIREMENTS[r].description

\* C8 witness: a report of a run whose latest outcome claimed the undeclared
\* REQ-9 and in which a declared requirement has no test
C8_Witness ==
    /\ phase = "done"
    /\ last # <<>>
    /\ Records(last[1].item, last[1].call)
    /\ \E i \in DOMAIN last[1].item._requirements :
          last[1].item._requirements[i] = "REQ-9"
    /\ \E r \in DOMAIN REQUIREMENTS : ~files["report.json"].requirements[r].covered
    /\ files["report.json"].summary.covered = 1

\* C9: outcomes are not deduplicated by test identifier: when a test whose
\* identifier is already in the entry of a declared requirement it claims is
\* recorded again, the entry gains one more event and keeps the earlier one,
\* total_tests grows, and a FAIL in either makes the requirement failing.
C9_NoDeduplication ==
    [][(calls' = calls + 1 /\ Records(last'[1].item, last'[1].call))
       => LET item == last'[1].item
              claimed == {item._requirements[i] : i \in DOMAIN item._requirements}
          IN  \A r \in claimed \cap DOMAIN REQUIREMENTS :
                 (\E i \in 1..Len(coverage[r]) : coverage[r][i].test = item.nodeid)
                 => /\ Len(coverage'[r]) > Len(coverage[r])
                    /\ Cardinality({i \in 1..Len(coverage'[r]) :
                                       coverage'[r][i].test = item.nodeid}) >= 2
                    /\ RequirementReport(coverage', feature_coverage', r).tests
                          = coverage'[r]
                    /\ TotalTests(coverage') > TotalTests(coverage)
                    /\ (\E i \in 1..Len(coverage'[r]) :
                           /\ coverage'[r][i].test = item.nodeid
                           /\ coverage'[r][i].outcome = "FAIL")
                       => LET d == RequirementReport(coverage', feature_coverage', r)
                          IN  d.covered /\ ~d.verified]_vars

\* C9 witness: one test identifier twice in one entry, PASS and FAIL, reported
\* as two tests of a failing requirement
C9_Witness ==
    /\ phase = "done"
    /\ \E r \in DOMAIN REQUIREMENTS :
          LET d == files["report.json"].requirements[r]
          IN  /\ Len(d.tests) = 2
              /\ d.tests[1].test = d.tests[2].test
              /\ d.tests[1].outcome = "PASS"
              /\ d.tests[2].outcome = "FAIL"
              /\ d.covered /\ ~d.verified
              /\ files["report.json"].summary.total_tests = 2

\* C10: building the reports never changes the ledger: across the terminal
\* summary, which calls generate_reports, both ledgers keep their entries and
\* events.
C10_ReportLeavesLedger ==
    [][(phase = "running" /\ phase' = "done")
       => /\ coverage' = coverage
          /\ feature_coverage' = feature_coverage]_vars

\* C10 witness: reports written from a ledger that holds a declared and an
\* undeclared feature entry and a failing requirement
C10_Witness ==
    /\ phase = "done"
    /\ DOMAIN files = {"report.json", "report.html", "report.md", "report_table.txt"}
    /\ terminal # <<>>
    /\ \E r \in DOMAIN coverage : coverage[r] # <<>> /\ ~AllPass(coverage[r])
    /\ "F9.9" \in DOMAIN feature_coverage
    /\ "F1.1" \in DOMAIN feature_coverage
    /\ files["report.json"].feature_coverage = feature_coverage

C13_AppendOnly ==
    [][/\ ~(phase = "done" /\ phase' = "running") =>
             /\ \A r \in DOMAIN coverage :
                   /\ r \in DOMAIN coverage'
                   /\ Len(coverage[r]) <= Len(coverage'[r])
                   /\ SubSeq(coverage'[r], 1, Len(coverage[r])) = coverage[r]
             /\ \A f \in DOMAIN feature_coverage :
                   /\ f \in DOMAIN feature_coverage'
                   /\ Len(feature_coverage[f]) <= Len(feature_coverage'[f])
                   /\ SubSeq(feature_coverage'[f], 1, Len(feature_coverage[f]))
                         = feature_coverage[f]
       /\ phase' = "done" =>
             \A r \in DOMAIN REQUIREMENTS :
                 files'["report.json"].requirements[r].tests = coverage'[r]]_vars

\* the report of a run that recorded a PASS of one test and then a FAIL of
\* another under the same requirement: listed in that order, status failing
C13_Witness ==
    /\ phase = "done"
    /\ \E r \in DOMAIN REQUIREMENTS :
          LET d == files["report.json"].requirements[r]
          IN  /\ Len(d.tests) = 2
              /\ d.tests[1].test # d.tests[2].test
              /\ d.tests[1].outcome = "PASS"
              /\ d.tests[2].outcome = "FAIL"
              /\ d.tests = coverage[r]
              /\ files["report.html"].status[r] = "failing"

C15_FirstFoundWins ==
    calls = 1 =>
        LET failure == coverage["REQ-1"][1].failure
            lines == Split(failure.error_message, <<"\n">>)
            unset == [response |-> <<>>, expected |-> <<>>]
        IN  Contains(failure.error_message, <<"a", "s", "s", "e", "r", "t">>) =>
                \A k \in 1..Len(lines) :
                    LET early == ScanLines(unset, SubSeq(lines, 1, k))
                    IN  /\ ~Falsy(early.response) =>
                              failure.response = early.response[1]
                        /\ ~Falsy(early.expected) =>
                              failure.expected = early.expected[1]

\* C16 as claimed: in an error text none of whose lines has assert together
\* with ' == ', with or without the word assert elsewhere, response is what
\* follows the sign in the first line beginning with '+' and expected what
\* follows it in the first line beginning with '-', blanks trimmed.
C16_DiffScanIndependent ==
    calls = 1 =>
        LET failure == coverage["REQ-1"][1].failure
            lines == Split(failure.error_message, <<"\n">>)
            assert_lines == {i \in 1..Len(lines) :
                                /\ Contains(Lower(lines[i]), <<"a", "s", "s", "e", "r", "t">>)
                                /\ Contains(lines[i], <<" ", "=", "=", " ">>)}
            plus == {i \in 1..Len(lines) : StartsWithAt(Strip(lines[i]), <<"+">>, 1)}
            minus == {i \in 1..Len(lines) : StartsWithAt(Strip(lines[i]), <<"-">>, 1)}
            First(set) == CHOOSE i \in set : \A h \in set : i <= h
            Content(i) == Strip(From(Strip(lines[i]), 2))
        IN  assert_lines = {} =>
                /\ (plus # {} /\ Content(First(plus)) # <<>>) =>
                       failure.response = Content(First(plus))
                /\ (minus # {} /\ Content(First(minus)) # <<>>) =>
                       failure.expected = Content(First(minus))

\* C17: whatever the failing test and its error text, the event is recorded
\* as a FAIL with a failure detail of exactly five fields; error_message and
\* error_type are the exception's text and type name; and each of stimuli,
\* response and expected is the value found for it or, when none was found
\* for that field, 'Not captured', whatever became of the other two.
C17_DegradesPerField ==
    calls = 1 =>
        LET item == last[1].item
            event == coverage["REQ-1"][1]
            failure == event.failure
            found == Extract(item.raises.value)
        IN  /\ Len(coverage["REQ-1"]) = 1
            /\ event.test = item.nodeid
            /\ event.outcome = "FAIL"
            /\ DOMAIN failure = {"stimuli", "response", "expected",
                                 "error_message", "error_type"}
            /\ failure.error_message = item.raises.value
            /\ failure.error_type = item.raises.typename
            /\ failure.stimuli =
                  IF DOMAIN Stimuli(item) = {} THEN [str |-> NotCaptured]
                  ELSE [dict |-> Stimuli(item)]
            /\ failure.response =
                  IF Falsy(found.response) THEN NotCaptured ELSE found.response[1]
            /\ failure.expected =
                  IF Falsy(found.expected) THEN NotCaptured ELSE found.expected[1]
            /\ failure.response # <<>>
            /\ failure.expected # <<>>

\* a recorded failure with response found, expected and stimuli not
C17_Witness ==
    /\ calls = 1
    /\ coverage["REQ-1"][1].outcome = "FAIL"
    /\ coverage["REQ-1"][1].failure.response = <<"c">>
    /\ coverage["REQ-1"][1].failure.expected = NotCaptured
    /\ coverage["REQ-1"][1].failure.stimuli = [str |-> NotCaptured]

\* C18: the stimuli of a recorded failure are the test's parameter mapping
\* when it has a non-empty one, whatever its source says; otherwise function
\* and input of the first 'assert <identifier>(<args>) ==' in the source
\* when there is one; otherwise 'Not captured'.  For the source
\* "assert f(1) == 2\nassert g(3) == 4" they are function f, input 1.
C18_StimuliPrecedence ==
    calls = 1 =>
        LET item == last[1].item
            stimuli == coverage["REQ-1"][1].failure.stimuli
            match == IF item.source = <<>> THEN <<>>
                     ELSE SearchAssertCall(item.source[1])
        IN  /\ IF item.callspec # <<>> /\ DOMAIN item.callspec[1] # {}
               THEN stimuli = [dict |-> item.callspec[1]]
               ELSE IF match # <<>>
               THEN stimuli = [dict |-> [function |-> match[1].function,
                                         input |-> match[1].input]]
               ELSE stimuli = [str |-> NotCaptured]
            /\ (/\ item.callspec \in {<<>>, <<[k \in {} |-> <<>>]>>}
                /\ item.source =
                      <<<<"a", "s", "s", "e", "r", "t", " ", "f", "(", "1", ")",
                          " ", "=", "=", " ", "2", "\n", "a", "s", "s", "e",
                          "r", "t", " ", "g", "(", "3", ")", " ", "=", "=",
                          " ", "4">>>>) =>
                  stimuli = [dict |-> [function |-> <<"f">>, input |-> <<"1">>]]
            \* "x = 1" and "assert h (5) == 6" have no match
            /\ (/\ item.callspec \in {<<>>, <<[k \in {} |-> <<>>]>>}
                /\ item.source # <<>>
                /\ item.source[1] \in
                      {<<"x", " ", "=", " ", "1">>,
                       <<"a", "s", "s", "e", "r", "t", " ", "h", " ", "(", "5",
                         ")", " ", "=", "=", " ", "6">>}) =>
                  stimuli = [str |-> NotCaptured]

\* a parametrized test whose source has the pattern too: the parameters win
C18_Witness ==
    /\ calls = 1
    /\ last[1].item.callspec # <<>>
    /\ last[1].item.source # <<>>
    /\ SearchAssertCall(last[1].item.source[1]) # <<>>
    /\ coverage["REQ-1"][1].failure.stimuli
          = [dict |-> [s |-> <<"'", "a", "b", "c", "'">>]]

\* C19: after any sequence of records, an event of the requirement ledger
\* carries a failure detail if and only if its outcome is FAIL.
C19_FailureIffFail ==
    \A r \in DOMAIN coverage :
        \A i \in 1..Len(coverage[r]) :
            ("failure" \in DOMAIN coverage[r][i]) <=> (coverage[r][i].outcome = "FAIL")

\* a ledger holding a passing event and the failure of a ValueError
C19_Witness ==
    /\ \E r \in DOMAIN coverage :
          \E i \in 1..Len(coverage[r]) : coverage[r][i].outcome = "PASS"
    /\ \E r \in DOMAIN coverage :
          \E i \in 1..Len(coverage[r]) :
              /\ coverage[r][i].outcome = "FAIL"
              /\ coverage[r][i].failure.error_type = "ValueError"

\* C20: whenever the gate runs, it returns True and exits with status 0 if
\* and only if report.json is there and its summary.verification_percent is
\* at least the threshold (95.0 unless given; equal passes); in every other
\* case, the missing report included, it returns False and exits with 1.
C20_GatePasses ==
    [][gate' # gate =>
          LET passes == /\ "report.json" \in DOMAIN files
                        /\ files["report.json"].summary.verification_percent
                              >= gate'[1].min_verification
          IN  /\ gate'[1].result.passed <=> passes
              /\ gate'[1].exit_status = IF passes THEN 0 ELSE 1
              /\ gate'[1].result.found <=> "report.json" \in DOMAIN files]_vars

\* the gate passed on verification equal to the threshold, the run having
\* verified two of the four requirements
C20_Witness ==
    /\ gate # <<>>
    /\ phase = "done"
    /\ gate[1].min_verification = 500
    /\ files["report.json"].summary.verification_percent = 500
    /\ gate[1].result.passed
    /\ gate[1].exit_status = 0

\* C21: for any report and threshold the gate names every uncovered
\* requirement of report.json in one list and every covered but unverified
\* one in the other (so each in exactly one list, and no verified one in
\* either).
C21_GateNamesAll ==
    [][(gate' # gate /\ "report.json" \in DOMAIN files) =>
          LET requirements == files["report.json"].requirements
          IN  /\ gate'[1].result.uncovered
                    = {r \in DOMAIN requirements : ~requirements[r].covered}
              /\ gate'[1].result.failing
                    = {r \in DOMAIN requirements :
                          requirements[r].covered /\ ~requirements[r].verified}]_vars

\* C22: each of check_coverage.py, show_table.py, show_uncovered.py and
\* view_reports.py, run for the report while report.json is missing, tells
\* the user to run the tests first, ends with a non-zero exit status and
\* does not end with an unhandled exception.
C22_MissingReportHandled ==
    /\ (gate # <<>> /\ ~gate[1].result.found) => gate[1].exit_status # 0
    /\ LET for_report ==
               \/ viewer[1].script \in {"show_table.py", "show_uncovered.py"}
               \/ /\ viewer[1].script = "view_reports.py"
                  /\ Len(viewer[1].argv) > 0
                  /\ viewer[1].argv[1] \in DOMAIN REPORTS
       IN  (viewer # <<>> /\ "report.json" \notin DOMAIN files /\ for_report)
              => /\ viewer[1].out.run_tests_first
                 /\ viewer[1].exit_status # 0
                 /\ viewer[1].out.raised = <<>>

\* requirement IDs written twice in the literal, feature IDs written twice
\* in the literal (in one requirement or in two)
DuplicateRequirementIds(source) ==
    \E i, j \in 1..Len(source) : i # j /\ source[i][1] = source[j][1]

DuplicateFeatureIds(source) ==
    \E i, j \in 1..Len(source) :
        \E m \in 1..Len(source[i][2]) : \E n \in 1..Len(source[j][2]) :
            /\ <<i, m>> # <<j, n>>
            /\ source[i][2][m][1] = source[j][2][n][1]

RECURSIVE FeatureCountSum(_, _)
FeatureCountSum(requirements, n) ==
    IF n = 0 THEN 0
    ELSE FeatureCountSum(requirements, n - 1)
            + Len(requirements.at[requirements.keys[n]].features.keys)

\* C23: importing a registry in which a requirement ID or a feature ID is
\* declared twice ends with a load-time error; and in every registry that
\* loads, each feature ID belongs to exactly one requirement and the number
\* of features (total_features) is the sum of the per-requirement counts.
C23_DuplicatesRejected ==
    (registry # <<>> /\ registry[1].loaded # <<>>) =>
        LET source == registry[1].source
            loaded == registry[1].loaded[1]
            requirements == loaded.REQUIREMENTS
        IN  /\ (DuplicateRequirementIds(source) \/ DuplicateFeatureIds(source))
                  => loaded.error # <<>>
            /\ loaded.error = <<>> =>
                  /\ \A f \in DOMAIN loaded.all_features :
                        Cardinality({r \in DOMAIN requirements.at :
                            f \in DOMAIN requirements.at[r].features.at}) = 1
                  /\ Cardinality(DOMAIN loaded.all_features)
                        = FeatureCountSum(requirements, Len(requirements.keys))

\* the ledger before the first outcome of a run: at Init and after every
\* pytest_configure
RunStarts == phase = "running" /\ last = <<>>

\* C24: at the start of every run every declared requirement and every
\* declared feature has an empty event list in the ledger, no other ID has an
\* entry, nothing of an earlier run is in it, and the report built from it
\* shows every requirement and feature uncovered with all counts 0.
C24_FreshLedger ==
    RunStarts =>
        /\ coverage = [req_id \in DOMAIN REQUIREMENTS |-> <<>>]
        /\ feature_coverage = [feat_id \in DOMAIN get_all_features |-> <<>>]
        /\ LET report == generate_json(coverage, feature_coverage, Now(files))
           IN  /\ \A r \in DOMAIN report.requirements :
                     /\ ~report.requirements[r].covered
                     /\ report.requirements[r].tests = <<>>
                     /\ \A f \in DOMAIN report.requirements[r].features :
                           /\ ~report.requirements[r].features[f].covered
                           /\ report.requirements[r].features[f].examples = 0
               /\ report.summary.covered = 0
               /\ report.summary.verified = 0
               /\ report.summary.total_tests = 0
               /\ report.summary.total_test_scenarios = 0
               /\ report.summary.features_covered = 0
               /\ report.summary.features_verified = 0

\* the events recorded for a feature in the ledger
FeatureEvents(feat_id) ==
    IF feat_id \in DOMAIN feature_coverage THEN feature_coverage[feat_id] ELSE <<>>

RECURSIVE SumExamples(_, _)
SumExamples(events, n) ==
    IF n = 0 THEN 0 ELSE SumExamples(events, n - 1) + events[n].examples

\* C25: in the report written at the end of a run, every requirement has one
\* breakdown entry per feature it declares and no other; an entry is covered
\* iff the feature has an event in the ledger, verified iff it is covered and
\* all its events are PASS, and its examples are the sum of the example
\* counts of its events (0 when uncovered).
C25_FeatureBreakdown ==
    (phase = "done" /\ "report.json" \in DOMAIN files) =>
        \A req_id \in DOMAIN REQUIREMENTS :
            LET features == files["report.json"].requirements[req_id].features
            IN  /\ DOMAIN features = DOMAIN REQUIREMENTS[req_id].features
                /\ \A f \in DOMAIN features :
                      LET events == FeatureEvents(f)
                      IN  /\ features[f].covered <=> Len(events) >= 1
                          /\ features[f].verified <=>
                                /\ features[f].covered
                                /\ \A i \in 1..Len(events) :
                                      events[i].outcome = "PASS"
                          /\ features[f].examples = SumExamples(events, Len(events))

\* a report in which a feature has a PASS and a FAIL event, of 1 and 500
\* examples (covered, not verified, 501 examples), next to an uncovered
\* feature
C25_Witness ==
    /\ phase = "done"
    /\ "report.json" \in DOMAIN files
    /\ LET features == files["report.json"].requirements["REQ-1"].features
       IN  /\ Len(FeatureEvents("F1.1")) = 2
           /\ \E i, j \in 1..2 : /\ FeatureEvents("F1.1")[i].outcome = "PASS"
                                  /\ FeatureEvents("F1.1")[j].outcome = "FAIL"
           /\ features["F1.1"].covered
           /\ ~features["F1.1"].verified
           /\ features["F1.1"].examples = 501
           /\ ~features["F1.3"].covered

\* C26: the outcome of every executed test is appended to the ledger entry
\* of each feature ID the test claims, with the test identifier, outcome and
\* example count of its requirement event, whatever requirement IDs the test
\* claims and also when it claims none.
C26_FeaturesRecorded ==
    [][(/\ calls' = calls + 1
        /\ last'[1].call.when = "call"
        /\ last'[1].item.has_features) =>
          LET item == last'[1].item
              event == test_info(item, last'[1].call)
          IN  \A i \in 1..Len(item._features) :
                  LET f == item._features[i]
                  IN  /\ f \in DOMAIN feature_coverage'
                      /\ Len(feature_coverage'[f]) = Len(FeatureEvents(f)) + 1
                      /\ LET recorded ==
                                 feature_coverage'[f][Len(feature_coverage'[f])]
                         IN  /\ recorded.test = event.test
                             /\ recorded.outcome = event.outcome
                             /\ recorded.examples = event.hypothesis_examples]_vars

\* C27: within a run (every step but pytest_configure) a requirement or
\* feature that is covered stays covered, one that has a FAIL event (covered
\* and not verified) stays so whatever is recorded later, and the covered
\* counts do not decrease.
C27_StatusForward ==
    [][~(phase = "done" /\ phase' = "running") =>
          /\ \A req_id \in DOMAIN REQUIREMENTS :
                LET before == RequirementReport(coverage, feature_coverage, req_id)
                    after == RequirementReport(coverage', feature_coverage', req_id)
                IN  /\ before.covered => after.covered
                    /\ (before.covered /\ ~before.verified)
                          => (after.covered /\ ~after.verified)
                    /\ \A f \in DOMAIN before.features :
                          /\ before.features[f].covered => after.features[f].covered
                          /\ (before.features[f].covered /\ ~before.features[f].verified)
                                => (after.features[f].covered
                                      /\ ~after.features[f].verified)
          /\ Summary(coverage', feature_coverage').covered
                >= Summary(coverage, feature_coverage).covered
          /\ Summary(coverage', feature_coverage').features_covered
                >= Summary(coverage, feature_coverage).features_covered]_vars

\* a requirement and a feature with a FAIL event and a later PASS event,
\* reported covered and not verified at the end of the run
C27_Witness ==
    /\ phase = "done"
    /\ Len(coverage["REQ-1"]) = 2
    /\ coverage["REQ-1"][1].outcome = "FAIL"
    /\ coverage["REQ-1"][2].outcome = "PASS"
    /\ Len(FeatureEvents("F1.1")) = 2
    /\ FeatureEvents("F1.1")[1].outcome = "FAIL"
    /\ FeatureEvents("F1.1")[2].outcome = "PASS"
    /\ files["report.json"].requirements["REQ-1"].covered
    /\ ~files["report.json"].requirements["REQ-1"].verified
    /\ ~files["report.json"].requirements["REQ-1"].features["F1.1"].verified

\* the events of the tests in order that claim id among their requirement
\* IDs, among their feature IDs
RequirementEventsIn(order, req_id) ==
    LET claiming == SelectSeq(order, LAMBDA job :
                        \E i \in 1..Len(job.item._requirements) :
                            job.item._requirements[i] = req_id)
    IN  [k \in 1..Len(claiming) |-> test_info(claiming[k].item, claiming[k].call)]

FeatureEventsIn(order, feat_id) ==
    LET claiming == SelectSeq(order, LAMBDA job :
                        \E i \in 1..Len(job.item._features) :
                            job.item._features[i] = feat_id)
    IN  [k \in 1..Len(claiming) |->
            feature_test_info(claiming[k].item, claiming[k].call)]

\* C28: with parallel workers that each record a whole outcome inside one
\* critical section, when all of them are done every requirement entry and
\* every feature entry of the ledger holds exactly the events of the tests
\* that claimed it, in the order the critical sections ran.
C28_NoEventLost ==
    (\A w \in Workers : pool.pc[w].at = "idle") =>
        /\ \A req_id \in DOMAIN coverage :
              coverage[req_id] = RequirementEventsIn(pool.order, req_id)
        /\ \A feat_id \in DOMAIN get_all_features :
              FeatureEvents(feat_id) = FeatureEventsIn(pool.order, feat_id)

====
